---- MODULE Spec2Model ----
(***************************************************************************)
(* Page-image and text-region extraction and storage of the document       *)
(* upload backend: the text-region extractor and the pipeline              *)
(* (server/ocr_processor.py), the file-based document store                *)
(* (server/ocr_storage.py) and the upload handler and page endpoints       *)
(* (server/main.py).                                                       *)
(*                                                                         *)
(* The store is modelled on a small filesystem: a set of directories and   *)
(* a map from file paths to file contents.  A region file holds the JSON   *)
(* text json.dump wrote, modelled as its sequence of lexical tokens, and   *)
(* json.load parses that sequence back.                                    *)
(***************************************************************************)
EXTENDS Integers, Sequences, FiniteSets, TLC

\* ------------------------------------------------------------------ bounds
MaxPage == 2         \* store calls use page numbers 1..MaxPage
MaxPdfPages == 2     \* an uploaded PDF has 0..MaxPdfPages pages
MaxBlocks == 2       \* blocks per page in the extractor's inputs

\* ------------------------------------------------------- program constants
DPI == 150           \* default resolution of process_pdf
CONFIDENCE == 1      \* the literal 1.0 every region carries

\* Optional values: None is the empty sequence, Some(x) a one-element one.
None == <<>>
Some(x) == <<x>>

\* ------------------------------------------------------------------ text
\* A Python str is a sequence of one-character strings.
IsSpace(c) == c = " "

RECURSIVE LStrip(_)
LStrip(s) == IF s # <<>> /\ IsSpace(Head(s)) THEN LStrip(Tail(s)) ELSE s

RECURSIVE RStrip(_)
RStrip(s) ==
    IF s # <<>> /\ IsSpace(s[Len(s)]) THEN RStrip(SubSeq(s, 1, Len(s) - 1)) ELSE s

\* str.strip(): leading and trailing whitespace removed.
Strip(s) == RStrip(LStrip(s))

\* ------------------------------------------------------------- extractor
\* zoom = dpi / 72.0 and x *= zoom.  A pixel coordinate is kept exactly, in
\* units of 1/72 pixel: a coordinate of x points becomes x * dpi of them.
ScaleCoord(x, dpi) == x * dpi

\* The 4-corner polygon of a span's (x0, y0, x1, y1) box, scaled.
Polygon(b, dpi) ==
    LET x0 == ScaleCoord(b[1], dpi)
        y0 == ScaleCoord(b[2], dpi)
        x1 == ScaleCoord(b[3], dpi)
        y1 == ScaleCoord(b[4], dpi)
    IN  << <<x0, y0>>, <<x1, y0>>, <<x1, y1>>, <<x0, y1>> >>

\* A region for every span, blank ones included.
SpanRegionsKeepBlank(span, dpi) ==
    << [bbox |-> Polygon(span.bbox, dpi), text |-> Strip(span.text),
        confidence |-> CONFIDENCE] >>

\* A span's region, or nothing when its trimmed text is empty.
SpanRegions(span, dpi) ==
    LET text == Strip(span.text)
    IN  IF text = <<>> THEN <<>>
        ELSE << [bbox |-> Polygon(span.bbox, dpi), text |-> text,
                 confidence |-> CONFIDENCE] >>

RECURSIVE LineRegions(_, _)
LineRegions(spans, dpi) ==
    IF spans = <<>> THEN <<>>
    ELSE SpanRegions(Head(spans), dpi) \o LineRegions(Tail(spans), dpi)

RECURSIVE LinesRegions(_, _)
LinesRegions(lines, dpi) ==
    IF lines = <<>> THEN <<>>
    ELSE LineRegions(Head(lines), dpi) \o LinesRegions(Tail(lines), dpi)

\* A block of type 0 is a text block; any other block is skipped.
BlockRegions(block, dpi) ==
    IF block.type # 0 THEN <<>> ELSE LinesRegions(block.lines, dpi)

RECURSIVE PageRegions(_, _)
PageRegions(blocks, dpi) ==
    IF blocks = <<>> THEN <<>>
    ELSE BlockRegions(Head(blocks), dpi) \o PageRegions(Tail(blocks), dpi)

\* Pages without regions left out of the result.
extract_text_regions_skip_empty(pdf, dpi) ==
    SelectSeq([i \in 1..Len(pdf) |-> PageRegions(pdf[i], dpi)], LAMBDA r : r # <<>>)

\* extract_text_regions: one region list per page, in page order.
extract_text_regions(pdf, dpi) == [i \in 1..Len(pdf) |-> PageRegions(pdf[i], dpi)]

\* pdf_to_page_images: one rendered image per page, in page order.
pdf_to_page_images(pdf, dpi) == [i \in 1..Len(pdf) |-> [page |-> i, dpi |-> dpi]]

\* process_pdf: both passes at the same resolution.
process_pdf(pdf, dpi) ==
    [images |-> pdf_to_page_images(pdf, dpi),
     text_regions |-> extract_text_regions(pdf, dpi)]

\* ------------------------------------------------------------------ JSON
\* Lexical tokens of a JSON text.
Tok(kind) == [k |-> kind, n |-> 0, s |-> <<>>, key |-> ""]
TNum(x) == [k |-> "num", n |-> x, s |-> <<>>, key |-> ""]
TStr(str) == [k |-> "str", n |-> 0, s |-> str, key |-> ""]
TKey(name) == [k |-> "key", n |-> 0, s |-> <<>>, key |-> name]

EncodePoint(p) == <<Tok("["), TNum(p[1]), TNum(p[2]), Tok("]")>>

EncodeBbox(b) ==
    <<Tok("[")>> \o EncodePoint(b[1]) \o EncodePoint(b[2])
                 \o EncodePoint(b[3]) \o EncodePoint(b[4]) \o <<Tok("]")>>

\* A dict is written with its keys in insertion order: bbox, text, confidence.
EncodeRegion(r) ==
    <<Tok("{"), TKey("bbox")>> \o EncodeBbox(r.bbox)
        \o <<TKey("text"), TStr(r.text), TKey("confidence"), TNum(r.confidence), Tok("}")>>

RECURSIVE EncodeRegions(_)
EncodeRegions(rs) ==
    IF rs = <<>> THEN <<>> ELSE EncodeRegion(Head(rs)) \o EncodeRegions(Tail(rs))

\* json.dump(ocr_result, f): the tokens written for a list of regions.
json_dump(ocr_result) == <<Tok("[")>> \o EncodeRegions(ocr_result) \o <<Tok("]")>>

ParseFail == [ok |-> FALSE, val |-> <<>>, next |-> 0]

RECURSIVE ParseValue(_, _)
RECURSIVE ParseItems(_, _, _)
RECURSIVE ParseMembers(_, _, _)

ParseValue(toks, i) ==
    IF i > Len(toks) THEN ParseFail
    ELSE CASE toks[i].k = "num" -> [ok |-> TRUE, val |-> toks[i].n, next |-> i + 1]
           [] toks[i].k = "str" -> [ok |-> TRUE, val |-> toks[i].s, next |-> i + 1]
           [] toks[i].k = "[" -> ParseItems(toks, i + 1, <<>>)
           [] toks[i].k = "{" -> ParseMembers(toks, i + 1, <<>>)
           [] OTHER -> ParseFail

ParseItems(toks, i, acc) ==
    IF i > Len(toks) THEN ParseFail
    ELSE IF toks[i].k = "]" THEN [ok |-> TRUE, val |-> acc, next |-> i + 1]
    ELSE LET r == ParseValue(toks, i)
         IN  IF r.ok THEN ParseItems(toks, r.next, Append(acc, r.val)) ELSE ParseFail

\* acc maps the keys read so far to their values; a repeated key keeps its
\* last value.
ParseMembers(toks, i, acc) ==
    IF i > Len(toks) THEN ParseFail
    ELSE IF toks[i].k = "}" THEN [ok |-> TRUE, val |-> acc, next |-> i + 1]
    ELSE IF toks[i].k = "key"
         THEN LET r == ParseValue(toks, i + 1)
              IN  IF r.ok THEN ParseMembers(toks, r.next, (toks[i].key :> r.val) @@ acc)
                  ELSE ParseFail
    ELSE ParseFail

\* json.load(f): the value of the whole text; raises on anything else.
json_load(toks) ==
    LET r == ParseValue(toks, 1)
    IN  IF r.ok /\ r.next = Len(toks) + 1
        THEN [raised |-> FALSE, val |-> r.val]
        ELSE [raised |-> TRUE, val |-> <<>>]

\* ------------------------------------------------------------ filesystem
\* A path is the sequence of its components below BASE_DIR.  fs.dirs is the
\* set of directories that exist, fs.files maps each existing file to its
\* content.
EmptyFs == [dirs |-> {}, files |-> [p \in {} |-> <<>>]]

Parent(path) == SubSeq(path, 1, Len(path) - 1)

IsUnder(path, dir) == Len(path) >= Len(dir) /\ SubSeq(path, 1, Len(dir)) = dir

\* f"page_{page_num}.png" and f"page_{page_num}.json"
PageFile(page_num, ext) == [stem |-> "page_", num |-> page_num, ext |-> ext]

\* Path.mkdir(parents=True, exist_ok=True)
Mkdir(fs, path) ==
    [fs EXCEPT !.dirs = @ \cup {SubSeq(path, 1, k) : k \in 1..Len(path)}]

FileExists(fs, path) == path \in DOMAIN fs.files

\* open(path, "w") followed by writing all of content: the parent directory
\* must exist, and the file then holds exactly content.
WriteFile(fs, path, content) ==
    IF Parent(path) \in fs.dirs
    THEN [fs |-> [fs EXCEPT !.files = (path :> content) @@ @], raised |-> FALSE]
    ELSE [fs |-> fs, raised |-> TRUE]

\* shutil.rmtree(dir)
Rmtree(fs, dir) ==
    [dirs |-> {p \in fs.dirs : ~IsUnder(p, dir)},
     files |-> [p \in {q \in DOMAIN fs.files : ~IsUnder(q, dir)} |-> fs.files[p]]]

\* ------------------------------------------------------------------ store
\* Every document under one directory.
_doc_dir_shared(doc_id) == <<"shared">>

_doc_dir(doc_id) == <<doc_id>>

PagesDir(doc_id) == Append(_doc_dir(doc_id), "pages")
OcrDir(doc_id) == Append(_doc_dir(doc_id), "ocr")
ImagePath(doc_id, page_num) == Append(PagesDir(doc_id), PageFile(page_num, ".png"))
OcrPath(doc_id, page_num) == Append(OcrDir(doc_id), PageFile(page_num, ".json"))

\* The directory emptied before it is created.
create_document_storage_fresh(fs, doc_id) ==
    [fs |-> Mkdir(Mkdir(Rmtree(fs, _doc_dir(doc_id)), PagesDir(doc_id)), OcrDir(doc_id)),
     raised |-> FALSE]

create_document_storage(fs, doc_id) ==
    [fs |-> Mkdir(Mkdir(fs, PagesDir(doc_id)), OcrDir(doc_id)), raised |-> FALSE]

save_page_image(fs, doc_id, page_num, image) ==
    WriteFile(fs, ImagePath(doc_id, page_num), image)

\* open(path, "a") in place of "w": the new text follows the old one.
save_page_ocr_append(fs, doc_id, page_num, ocr_result) ==
    LET path == OcrPath(doc_id, page_num)
        old == IF FileExists(fs, path) THEN fs.files[path] ELSE <<>>
    IN  WriteFile(fs, path, old \o json_dump(ocr_result))

save_page_ocr(fs, doc_id, page_num, ocr_result) ==
    WriteFile(fs, OcrPath(doc_id, page_num), json_dump(ocr_result))

\* The image served only when the region file exists too.
get_page_image_path_needs_ocr(fs, doc_id, page_num) ==
    IF FileExists(fs, ImagePath(doc_id, page_num)) /\ FileExists(fs, OcrPath(doc_id, page_num))
    THEN Some(ImagePath(doc_id, page_num))
    ELSE None

\* The image's path when the image exists, else None.
get_page_image_path(fs, doc_id, page_num) ==
    IF FileExists(fs, ImagePath(doc_id, page_num))
    THEN Some(ImagePath(doc_id, page_num))
    ELSE None

\* The parsed region list when the region file exists, else None; raises
\* when the file does not hold one JSON text.
get_page_ocr(fs, doc_id, page_num) ==
    LET path == OcrPath(doc_id, page_num)
    IN  IF ~FileExists(fs, path) THEN [raised |-> FALSE, ret |-> None]
        ELSE LET r == json_load(fs.files[path])
             IN  IF r.raised THEN [raised |-> TRUE, ret |-> None]
                 ELSE [raised |-> FALSE, ret |-> Some(r.val)]

\* pages_dir.glob("page_*.png")
GlobPagePng(fs, dir) ==
    {p \in DOMAIN fs.files : Parent(p) = dir /\ p[Len(p)].stem = "page_" /\ p[Len(p)].ext = ".png"}

\* The region files counted in place of the images.
get_page_count_of_ocr(fs, doc_id) ==
    IF OcrDir(doc_id) \notin fs.dirs THEN 0
    ELSE Cardinality({p \in DOMAIN fs.files : Parent(p) = OcrDir(doc_id)})

get_page_count(fs, doc_id) ==
    IF PagesDir(doc_id) \notin fs.dirs THEN 0
    ELSE Cardinality(GlobPagePng(fs, PagesDir(doc_id)))

\* Only the images removed.
cleanup_document_pages_only(fs, doc_id) ==
    [fs |-> IF _doc_dir(doc_id) \in fs.dirs THEN Rmtree(fs, PagesDir(doc_id)) ELSE fs,
     raised |-> FALSE]

cleanup_document(fs, doc_id) ==
    [fs |-> IF _doc_dir(doc_id) \in fs.dirs THEN Rmtree(fs, _doc_dir(doc_id)) ELSE fs,
     raised |-> FALSE]

\* ------------------------------------------------------------------ state
VARIABLES
    fs,            \* the filesystem below BASE_DIR
    allocated,     \* identifiers allocated and not cleaned up since
    imageSaved,    \* keys <<d, n>> whose image was saved since d's last cleanup
    regionsSaved,  \* key <<d, n>> -> the regions last saved since d's last cleanup
    cleaned,       \* identifiers cleaned up with nothing saved under them since
    minted,        \* identifiers minted by uploads, in order
    log,           \* one record per upload that minted an identifier
    last_upload,   \* the latest upload: its inputs and its response
    pdf,           \* the extractor's input document
    all_pages,     \* the extractor's output, once it ran
    writer,        \* the extraction run that writes a document, step by step
    readers,       \* each concurrent reader's get_page_ocr call in progress
    call,          \* a rasterizer or extractor call, step by step
    handles        \* the document handles that are open

vars == <<fs, allocated, imageSaved, regionsSaved, cleaned, minted, log, last_upload,
          pdf, all_pages, writer, readers, call, handles>>

storeVars == <<fs, allocated, imageSaved, regionsSaved, cleaned>>
uploadVars == <<minted, log, last_upload>>
extractVars == <<pdf, all_pages>>
raceVars == <<writer, readers>>
handleVars == <<call, handles>>

\* No stepwise writer, reader or document call is in progress.
Readers == {"r1", "r2"}
IdleReader == [pc |-> "idle", page |-> 0, raised |-> FALSE, ret |-> None]
IdleWriter == [pc |-> "idle", page |-> 0]
NoCall == [fn |-> "none", pc |-> "idle", doc |-> <<>>, h |-> "none", page |-> 0, out |-> <<>>]

StepwiseIdle ==
    /\ writer = IdleWriter
    /\ readers = [r \in Readers |-> IdleReader]
    /\ call = NoCall
    /\ handles = {}

\* ----------------------------------------------------------------- inputs
DocIds == {"d1", "d2"}
PageNums == 1..MaxPage
Keys == DocIds \X PageNums

Span(text, x0) == [text |-> text, bbox |-> <<x0, 72, x0 + 144, 86>>]
SpanHello == Span(<<"a", " ", "b">>, 72)
SpanPadded == Span(<<" ", "c", " ">>, 216)
SpanBlank == Span(<<" ", " ">>, 360)
SpanEmpty == Span(<<>>, 504)

ImageBlock == [type |-> 1, lines |-> <<>>]
TextBlock == [type |-> 0, lines |-> << <<SpanBlank, SpanHello>>, <<SpanPadded, SpanEmpty>> >>]
BlankBlock == [type |-> 0, lines |-> << <<SpanBlank>> >>]

Region1 == SpanRegions(SpanHello, DPI)[1]
Region2 == SpanRegions(SpanPadded, DPI)[1]

\* The region lists store calls are made with.
RegionInputs == {<<>>, <<Region2, Region1>>}
ImageInputs == {[page |-> 1, dpi |-> DPI]}

\* ------------------------------------------------------ store operations
\* Each action is one call of a store operation by some caller, with any
\* arguments; a call that raises leaves the filesystem as it was.
Allocate(d) ==
    /\ fs' = create_document_storage(fs, d).fs
    /\ allocated' = allocated \cup {d}
    /\ UNCHANGED <<imageSaved, regionsSaved, cleaned>>
    /\ UNCHANGED <<uploadVars, extractVars, raceVars, handleVars>>

SaveImage(d, n, image) ==
    /\ fs' = save_page_image(fs, d, n, image).fs
    /\ IF d \in allocated
       THEN /\ imageSaved' = imageSaved \cup {<<d, n>>}
            /\ cleaned' = cleaned \ {d}
       ELSE UNCHANGED <<imageSaved, cleaned>>
    /\ UNCHANGED <<allocated, regionsSaved>>
    /\ UNCHANGED <<uploadVars, extractVars, raceVars, handleVars>>

SaveRegions(d, n, regions) ==
    /\ fs' = save_page_ocr(fs, d, n, regions).fs
    /\ IF d \in allocated
       THEN /\ regionsSaved' = [regionsSaved EXCEPT ![<<d, n>>] = Some(regions)]
            /\ cleaned' = cleaned \ {d}
       ELSE UNCHANGED <<regionsSaved, cleaned>>
    /\ UNCHANGED <<allocated, imageSaved>>
    /\ UNCHANGED <<uploadVars, extractVars, raceVars, handleVars>>

Cleanup(d) ==
    /\ fs' = cleanup_document(fs, d).fs
    /\ allocated' = allocated \ {d}
    /\ imageSaved' = {k \in imageSaved : k[1] # d}
    /\ regionsSaved' = [k \in Keys |-> IF k[1] = d THEN None ELSE regionsSaved[k]]
    /\ cleaned' = cleaned \cup {d}
    /\ UNCHANGED <<uploadVars, extractVars, raceVars, handleVars>>

StoreOp(d) ==
    \/ Allocate(d)
    \/ \E n \in PageNums, image \in ImageInputs : SaveImage(d, n, image)
    \/ \E n \in PageNums, regions \in RegionInputs : SaveRegions(d, n, regions)
    \/ Cleanup(d)

Init ==
    /\ fs = EmptyFs
    /\ allocated = {}
    /\ imageSaved = {}
    /\ regionsSaved = [k \in Keys |-> None]
    /\ cleaned = {}
    /\ minted = <<>>
    /\ log = {}
    /\ last_upload = None
    /\ pdf = <<>>
    /\ all_pages = None
    /\ StepwiseIdle

Next ==
    \/ \E d \in DocIds : Allocate(d)
    \/ \E d \in DocIds, n \in PageNums, image \in ImageInputs : SaveImage(d, n, image)
    \/ \E d \in DocIds, n \in PageNums, regions \in RegionInputs : SaveRegions(d, n, regions)
    \/ \E d \in DocIds : Cleanup(d)

Spec == Init /\ [][Next]_vars

\* The results of every get operation on identifier d, over all page numbers
\* a caller may ask for.
AskedPages == 0..(MaxPage + 1)

Gets(f, d) ==
    [image |-> [n \in AskedPages |-> get_page_image_path(f, d, n)],
     ocr |-> [n \in AskedPages |-> get_page_ocr(f, d, n)],
     count |-> get_page_count(f, d)]

\* The filesystems any one store operation on d leaves, from filesystem f.
StoreResults(f, d) ==
    {create_document_storage(f, d).fs, cleanup_document(f, d).fs}
        \cup {save_page_image(f, d, n, image).fs : n \in PageNums, image \in ImageInputs}
        \cup {save_page_ocr(f, d, n, regions).fs : n \in PageNums, regions \in RegionInputs}

\* Identifiers a caller may ask about: the ones in use and one never allocated.
AskedIds == DocIds \cup {"unknown-doc"}

RegionsOf(d, n) == IF <<d, n>> \in Keys THEN regionsSaved[<<d, n>>] ELSE None

NothingFound(f, d) ==
    /\ \A n \in AskedPages :
         /\ get_page_image_path(f, d, n) = None
         /\ get_page_ocr(f, d, n) = [raised |-> FALSE, ret |-> None]
    /\ get_page_count(f, d) = 0

\* ------------------------------------------------------------ store claims
\* C2: when the last write to key (d, n) of an allocated document since its
\* last cleanup was save_page_regions(d, n, R), get_page_regions(d, n)
\* returns exactly R, the empty list included; a later save replaces an
\* earlier one.
C2_RoundTrip ==
    \A k \in Keys :
        regionsSaved[k] # None =>
            get_page_ocr(fs, k[1], k[2]) = [raised |-> FALSE, ret |-> regionsSaved[k]]

C2_Witness ==
    /\ regionsSaved[<<"d1", 1>>] = Some(<<>>)
    /\ regionsSaved[<<"d1", 2>>] = Some(<<Region2, Region1>>)
    /\ get_page_ocr(fs, "d1", 1).ret = Some(<<>>)
    /\ get_page_ocr(fs, "d1", 2).ret = Some(<<Region2, Region1>>)
    /\ "d2" \in cleaned

\* C3: get_page_count(d) is the number of distinct pages of d with a saved
\* image, 0 for an identifier never allocated or cleaned up, whatever
\* regions are saved.
C3_PageCount ==
    \A d \in AskedIds :
        get_page_count(fs, d) = Cardinality({n \in PageNums : <<d, n>> \in imageSaved})

C3_Witness ==
    /\ get_page_count(fs, "d1") = 2
    /\ regionsSaved[<<"d1", 1>>] = None
    /\ regionsSaved[<<"d1", 2>>] # None
    /\ get_page_count(fs, "d2") = 0
    /\ regionsSaved[<<"d2", 1>>] # None

\* C4: after cleanup(d), until something is saved under d again, every get
\* on d is not-found and the page count is 0; cleanup of an identifier with
\* no storage changes nothing and raises no error.
C4_Cleanup ==
    /\ \A d \in cleaned : NothingFound(fs, d)
    /\ \A d \in AskedIds :
         /\ ~cleanup_document(fs, d).raised
         /\ NothingFound(cleanup_document(fs, d).fs, d)
         /\ d \notin allocated => cleanup_document(fs, d).fs = fs

C4_Witness ==
    /\ "d1" \in cleaned
    /\ "d1" \in allocated
    /\ "d2" \in cleaned
    /\ "d2" \notin allocated
    /\ fs # EmptyFs

C9_Isolation ==
    \A d2 \in AskedIds :
        LET before == Gets(fs, d2)
        IN  \A d1 \in DocIds \ {d2} : \A f \in StoreResults(fs, d1) : Gets(f, d2) = before

C9_Witness ==
    /\ "d1" \in cleaned
    /\ <<"d2", 1>> \in imageSaved
    /\ regionsSaved[<<"d2", 2>>] = Some(<<Region2, Region1>>)
    /\ get_page_image_path(fs, "d2", 1) # None
    /\ get_page_ocr(fs, "d2", 2).ret = Some(<<Region2, Region1>>)

\* C10: allocate(d) for an identifier that already exists raises no error
\* and leaves every artifact saved under d, and so every get on d, as it was.
C10_AllocateIdempotent ==
    \A d \in allocated :
        LET r == create_document_storage(fs, d)
        IN  /\ ~r.raised
            /\ r.fs = fs
            /\ Gets(r.fs, d) = Gets(fs, d)

C10_Witness ==
    /\ "d1" \in allocated
    /\ <<"d1", 1>> \in imageSaved
    /\ regionsSaved[<<"d1", 1>>] = Some(<<Region2, Region1>>)
    /\ create_document_storage(fs, "d1").fs = fs

\* ---------------------------------------------------------------- extractor
SeqsUpTo(S, n) == UNION {[1..k -> S] : k \in 0..n}

BlockInputs == {ImageBlock, TextBlock, BlankBlock}
PageInputs == SeqsUpTo(BlockInputs, MaxBlocks)
PdfInputs == SeqsUpTo(PageInputs, MaxPdfPages)

\* One call extract_text_regions(pdf_path) on any document, at the default
\* resolution.
Extract ==
    /\ all_pages = None
    /\ all_pages' = Some(extract_text_regions(pdf, DPI))
    /\ UNCHANGED <<pdf, storeVars, uploadVars, raceVars, handleVars>>

InitExtract ==
    /\ pdf \in PdfInputs
    /\ all_pages = None
    /\ fs = EmptyFs
    /\ allocated = {}
    /\ imageSaved = {}
    /\ regionsSaved = [k \in Keys |-> None]
    /\ cleaned = {}
    /\ minted = <<>>
    /\ log = {}
    /\ last_upload = None
    /\ StepwiseIdle

NextExtract == Extract

SpecExtract == InitExtract /\ [][NextExtract]_vars

\* The positions <<block, line, span>> of a page's spans, and their order in
\* a block -> line -> span walk.
SpanPositions(page) ==
    UNION {UNION {{<<b, l, k>> : k \in 1..Len(page[b].lines[l])}
                  : l \in 1..Len(page[b].lines)}
           : b \in 1..Len(page)}

WalkedBefore(a, b) ==
    \/ a[1] < b[1]
    \/ a[1] = b[1] /\ a[2] < b[2]
    \/ a[1] = b[1] /\ a[2] = b[2] /\ a[3] < b[3]

SpanAt(page, pos) == page[pos[1]].lines[pos[2]][pos[3]]

\* The spans that must produce a region: those of text blocks whose text has
\* a character that is not whitespace.
Qualifying(page) ==
    {pos \in SpanPositions(page) :
        /\ page[pos[1]].type = 0
        /\ \E m \in 1..Len(SpanAt(page, pos).text) : SpanAt(page, pos).text[m] # " "}

NthQualifying(page, n) ==
    CHOOSE pos \in Qualifying(page) :
        Cardinality({q \in Qualifying(page) : WalkedBefore(q, pos)}) = n - 1

\* t is s without its leading and trailing whitespace.
IsTrimOf(t, s) ==
    \E i \in 1..(Len(s) + 1), j \in 0..Len(s) :
        /\ t = SubSeq(s, i, j)
        /\ \A m \in 1..(i - 1) : s[m] = " "
        /\ \A m \in (j + 1)..Len(s) : s[m] = " "
        /\ t # <<>> => t[1] # " " /\ t[Len(t)] # " "

\* region is what the span at (x0, y0, x1, y1) points must produce at 150 dpi
\* (coordinates in 1/72 pixel).
IsRegionOf(region, span) ==
    /\ IsTrimOf(region.text, span.text)
    /\ region.text # <<>>
    /\ region.confidence = 1
    /\ region.bbox = << <<150 * span.bbox[1], 150 * span.bbox[2]>>,
                        <<150 * span.bbox[3], 150 * span.bbox[2]>>,
                        <<150 * span.bbox[3], 150 * span.bbox[4]>>,
                        <<150 * span.bbox[1], 150 * span.bbox[4]>> >>

\* C8: the extractor returns one list per page, in page order; a page's list
\* holds, in block -> line -> span order, one region per span of a text
\* block whose trimmed text is non-empty and nothing else: no region has
\* empty text, every confidence is 1.0, and a page without such a span
\* contributes the empty list at its own position.
C8_ExtractedRegions ==
    all_pages # None =>
        LET out == all_pages[1]
        IN  /\ Len(out) = Len(pdf)
            /\ \A i \in 1..Len(pdf) :
                 /\ Len(out[i]) = Cardinality(Qualifying(pdf[i]))
                 /\ \A n \in 1..Len(out[i]) :
                      IsRegionOf(out[i][n], SpanAt(pdf[i], NthQualifying(pdf[i], n)))

C8_Witness ==
    /\ pdf = << <<ImageBlock, TextBlock>>, <<BlankBlock, ImageBlock>> >>
    /\ all_pages # None
    /\ Len(all_pages[1]) = 2
    /\ Len(all_pages[1][1]) = 2
    /\ all_pages[1][1][1].text = <<"a", " ", "b">>
    /\ all_pages[1][1][2].text = <<"c">>
    /\ all_pages[1][2] = <<>>

\* ------------------------------------------------------------ upload handler
\* suffix.lower() on the suffixes uploads are made with.
Lower(suffix) == IF suffix = ".PDF" THEN ".pdf" ELSE suffix

\* result.document.export_to_markdown(): the converter's text for the file.
Markdown(file) == [markdown_of |-> file.content]

\* What the environment may make fail during one upload: nothing, or one
\* step of the extraction.  A failed image write leaves no file.  For a failed
\* region write, written is what it left behind: -1 when open() raised, else
\* the number of tokens that reached the file before the error.
NoFault == [step |-> "none", page |-> 0, written |-> -1]

\* A write that failed: open() raised, or the file was created or truncated
\* and only `kept` was written.
FailedWrite(f, path, written, kept) ==
    IF written < 0 \/ Parent(path) \notin f.dirs THEN f
    ELSE [f EXCEPT !.files = (path :> kept) @@ @]

Min(a, b) == IF a < b THEN a ELSE b

\* for i, (img, ocr_data) in enumerate(zip(images, ocr_results)): save both.
RECURSIVE SavePages(_, _, _, _, _, _)
SavePages(f, doc_id, images, ocr_results, i, fault) ==
    IF i > Min(Len(images), Len(ocr_results)) THEN [fs |-> f, raised |-> FALSE]
    ELSE IF fault.step = "save_image" /\ fault.page = i
    THEN [fs |-> f, raised |-> TRUE]
    ELSE LET a == save_page_image(f, doc_id, i, images[i])
         IN  IF a.raised THEN a
             ELSE IF fault.step = "save_ocr" /\ fault.page = i
             THEN [fs |-> FailedWrite(a.fs, OcrPath(doc_id, i), fault.written,
                                      SubSeq(json_dump(ocr_results[i]), 1, fault.written)),
                   raised |-> TRUE]
             ELSE LET b == save_page_ocr(a.fs, doc_id, i, ocr_results[i])
                  IN  IF b.raised THEN b
                      ELSE SavePages(b.fs, doc_id, images, ocr_results, i + 1, fault)

\* The body of the inner try: allocate, process_pdf, save every page.
RunOcr(f, content, doc_id, fault) ==
    IF fault.step = "allocate" THEN [fs |-> f, raised |-> TRUE]
    ELSE LET a == create_document_storage(f, doc_id)
         IN  IF fault.step \in {"rasterize", "extract"} THEN [fs |-> a.fs, raised |-> TRUE]
             ELSE LET r == process_pdf(content, DPI)
                  IN  SavePages(a.fs, doc_id, r.images, r.text_regions, 1, fault)

\* doc_id not reset when the extraction failed.
OcrOutcomeKeepsId(o, doc_id) == [doc_id |-> Some(doc_id), has_ocr |-> ~o.raised]

\* doc_id and has_ocr after the inner try and its except clause.
OcrOutcome(o, doc_id) ==
    IF o.raised THEN [doc_id |-> None, has_ocr |-> FALSE]
    ELSE [doc_id |-> Some(doc_id), has_ocr |-> TRUE]

\* POST /convert.  env is what the handler draws from its environment: whether
\* the converter accepts the file, the identifier uuid4() returns, and the
\* fault, if any.
convert_document(f, file, env) ==
    IF ~env.convert_ok
    THEN [fs |-> f, minted |-> None,
          response |-> [status |-> 500, markdown |-> None, doc_id |-> None, has_ocr |-> FALSE]]
    ELSE IF Lower(file.suffix) # ".pdf"
    THEN [fs |-> f, minted |-> None,
          response |-> [status |-> 200, markdown |-> Some(Markdown(file)),
                        doc_id |-> None, has_ocr |-> FALSE]]
    ELSE LET run == RunOcr(f, file.content, env.uuid, env.fault)
             out == OcrOutcome(run, env.uuid)
         IN  [fs |-> run.fs, minted |-> Some(env.uuid),
              response |-> [status |-> 200, markdown |-> Some(Markdown(file)),
                            doc_id |-> out.doc_id, has_ocr |-> out.has_ocr]]

\* GET /page-image/{doc_id}/{page_num}
get_page_image(f, doc_id, page_num) ==
    LET path == get_page_image_path(f, doc_id, page_num)
    IN  IF path = None THEN [status |-> 404, body |-> None]
        ELSE [status |-> 200, body |-> Some(f.files[path[1]])]

\* GET /page-ocr/{doc_id}/{page_num}; an exception of the store is a 500.
get_page_ocr_data(f, doc_id, page_num) ==
    LET data == get_page_ocr(f, doc_id, page_num)
    IN  IF data.raised THEN [status |-> 500, body |-> None]
        ELSE IF data.ret = None THEN [status |-> 404, body |-> None]
        ELSE [status |-> 200, body |-> Some([page |-> page_num, regions |-> data.ret[1]])]

\* GET /page-count/{doc_id}
get_page_count_endpoint(f, doc_id) ==
    LET count == get_page_count(f, doc_id)
    IN  IF count = 0 THEN [status |-> 404, body |-> None]
        ELSE [status |-> 200, body |-> Some([page_count |-> count])]

\* ------------------------------------------------------------ upload inputs
Uuids == {"u1", "u2"}

\* The uploaded PDFs: P pages, the odd ones with an image and text, the even
\* ones with an image only.
PdfOfPages(P) ==
    [i \in 1..P |-> IF i % 2 = 1 THEN <<ImageBlock, TextBlock>> ELSE <<ImageBlock>>]

PdfUploads == {PdfOfPages(P) : P \in 0..MaxPdfPages}

PdfFiles == {[suffix |-> sfx, content |-> c] : sfx \in {".pdf", ".PDF"}, c \in PdfUploads}
OtherFiles == {[suffix |-> sfx, content |-> <<>>] : sfx \in {".txt", ""}}
RejectedFiles == {[suffix |-> sfx, content |-> <<>>] : sfx \in {".pdf", ".txt"}}

WrittenInputs == {-1, 0, 1}

FaultsFor(file) ==
    {NoFault}
         \cup {[step |-> st, page |-> 0, written |-> -1] :
                 st \in {"allocate", "rasterize", "extract"}}
         \cup {[step |-> "save_image", page |-> i, written |-> -1] :
                 i \in 1..Len(file.content)}
         \cup {[step |-> "save_ocr", page |-> i, written |-> w] :
                 i \in 1..Len(file.content), w \in WrittenInputs}

Range(seq) == {seq[i] : i \in 1..Len(seq)}

NoUuid == "uuid4-not-called"

\* One upload, from request to response.
Upload(file, env) ==
    LET r == convert_document(fs, file, env)
    IN  /\ fs' = r.fs
        /\ minted' = IF r.minted = None THEN minted ELSE Append(minted, env.uuid)
        /\ log' = IF r.minted = None THEN log
                  ELSE log \cup {[doc_id |-> env.uuid, pages |-> Len(file.content),
                                  has_ocr |-> r.response.has_ocr]}
        /\ last_upload' = Some([file |-> file, convert_ok |-> env.convert_ok,
                                fault |-> env.fault, minted |-> r.minted,
                                response |-> r.response])
        /\ UNCHANGED <<allocated, imageSaved, regionsSaved, cleaned, extractVars>>
        /\ UNCHANGED <<raceVars, handleVars>>

\* An upload the converter fails on.
UploadRejected(file) ==
    Upload(file, [convert_ok |-> FALSE, uuid |-> NoUuid, fault |-> NoFault])

\* An upload of a file that is not a PDF.
UploadOther(file) ==
    Upload(file, [convert_ok |-> TRUE, uuid |-> NoUuid, fault |-> NoFault])

\* An upload of a PDF; uuid4() returns an identifier no earlier upload got.
UploadPdf(file, uuid, fault) ==
    /\ uuid \notin Range(minted)
    /\ Upload(file, [convert_ok |-> TRUE, uuid |-> uuid, fault |-> fault])

NextUpload ==
    \/ \E file \in RejectedFiles : UploadRejected(file)
    \/ \E file \in OtherFiles : UploadOther(file)
    \/ \E file \in PdfFiles, uuid \in Uuids :
         \E fault \in FaultsFor(file) : UploadPdf(file, uuid, fault)

SpecUpload == Init /\ [][NextUpload]_vars

\* ------------------------------------------------------------ upload claims
\* The page numbers a client may ask for.
RequestPages == 0..(MaxPdfPages + 1)

IsFresh(doc_id) ==
    /\ minted # <<>>
    /\ minted[Len(minted)] = doc_id
    /\ \A j \in 1..(Len(minted) - 1) : minted[j] # doc_id

\* C1: an upload whose markdown conversion succeeds answers 200 with the
\* markdown and either (doc_id = null, has_ocr = false) or (doc_id = the
\* identifier just minted, has_ocr = true); it is (null, false) whenever the
\* file is not a PDF or a step of the extraction (allocate, rasterize,
\* extract, a page save) fails, and such a failure is never an error response.
C1_UploadResponse ==
    last_upload # None =>
        LET u == last_upload[1]
            r == u.response
        IN  u.convert_ok =>
              /\ r.status = 200
              /\ r.markdown = Some(Markdown(u.file))
              /\ \/ r.doc_id = None /\ ~r.has_ocr
                 \/ r.doc_id # None /\ r.has_ocr /\ r.doc_id = u.minted /\ IsFresh(r.doc_id[1])
              /\ (Lower(u.file.suffix) # ".pdf" \/ u.fault.step # "none")
                   => r.doc_id = None /\ ~r.has_ocr

C1_Witness ==
    /\ last_upload # None
    /\ last_upload[1].file.suffix = ".PDF"
    /\ last_upload[1].fault = [step |-> "save_ocr", page |-> 2, written |-> 1]
    /\ last_upload[1].response.status = 200
    /\ last_upload[1].response.doc_id = None
    /\ last_upload[1].minted = Some("u2")
    /\ [doc_id |-> "u1", pages |-> 2, has_ocr |-> TRUE] \in log

\* C6: the rasterizer and the extractor return one entry per page of the PDF,
\* so once an upload of a P-page PDF has reported has_ocr = true with
\* identifier d, the store holds an image and a region list for exactly the
\* pages 1..P of d: the page count is P, both gets succeed for 1..P and both
\* are not-found for every other page.
C6_AllPagesStored ==
    /\ \A c \in PdfUploads :
         /\ Len(pdf_to_page_images(c, DPI)) = Len(c)
         /\ Len(extract_text_regions(c, DPI)) = Len(c)
    /\ \A u \in log :
         u.has_ocr =>
           /\ get_page_count(fs, u.doc_id) = u.pages
           /\ \A n \in RequestPages :
                IF n \in 1..u.pages
                THEN /\ get_page_image_path(fs, u.doc_id, n) # None
                     /\ ~get_page_ocr(fs, u.doc_id, n).raised
                     /\ get_page_ocr(fs, u.doc_id, n).ret # None
                ELSE /\ get_page_image_path(fs, u.doc_id, n) = None
                     /\ get_page_ocr(fs, u.doc_id, n) = [raised |-> FALSE, ret |-> None]

C6_Witness ==
    /\ [doc_id |-> "u1", pages |-> 2, has_ocr |-> TRUE] \in log
    /\ get_page_count(fs, "u1") = 2
    /\ get_page_ocr(fs, "u1", 1).ret = Some(<<SpanRegions(SpanHello, DPI)[1],
                                              SpanRegions(SpanPadded, DPI)[1]>>)
    /\ get_page_ocr(fs, "u1", 2).ret = Some(<<>>)
    /\ get_page_ocr(fs, "u1", 3).ret = None

\* C7: when the extraction of an upload fails (has_ocr = false), every
\* page-image and page-regions request for the identifier minted for that
\* upload is answered not-found, for every page number.
C7_FailedUploadNotFound ==
    \A u \in log :
        ~u.has_ocr =>
            \A n \in RequestPages :
                /\ get_page_image(fs, u.doc_id, n).status = 404
                /\ get_page_ocr_data(fs, u.doc_id, n).status = 404

\* ------------------------------------------- one writer, concurrent readers
\* The extraction run of one upload writes document WriterDoc page by page
\* while other workers serve get_page_ocr on the same identifier.  A file
\* write is not one step: open(path, "w") creates the file empty, the text
\* reaches the file when the buffer is flushed, in one or more parts, and
\* close() flushes the rest.  A read is not one step either: path.exists()
\* first, then open() and json.load().
WriterDoc == "d1"
WriterPages == process_pdf(PdfOfPages(MaxPdfPages), DPI)
WriterLast == Len(WriterPages.images)

\* The region file of the page the writer is at, and the text it is writing.
WriterPath == OcrPath(WriterDoc, writer.page)
WriterText == json_dump(WriterPages.text_regions[writer.page])

WriterBegin ==
    /\ writer.pc = "idle"
    /\ fs' = create_document_storage(fs, WriterDoc).fs
    /\ writer' = IF WriterLast = 0 THEN [pc |-> "done", page |-> 0]
                 ELSE [pc |-> "image", page |-> 1]
    /\ UNCHANGED <<allocated, imageSaved, regionsSaved, cleaned, readers>>
    /\ UNCHANGED <<uploadVars, extractVars, handleVars>>

WriterSaveImage ==
    /\ writer.pc = "image"
    /\ fs' = save_page_image(fs, WriterDoc, writer.page, WriterPages.images[writer.page]).fs
    /\ writer' = [writer EXCEPT !.pc = "open"]
    /\ UNCHANGED <<allocated, imageSaved, regionsSaved, cleaned, readers>>
    /\ UNCHANGED <<uploadVars, extractVars, handleVars>>

\* save_page_ocr, open(path, "w"): the file exists and is empty.
WriterOpen ==
    /\ writer.pc = "open"
    /\ fs' = WriteFile(fs, WriterPath, <<>>).fs
    /\ writer' = [writer EXCEPT !.pc = "dump"]
    /\ UNCHANGED <<allocated, imageSaved, regionsSaved, cleaned, readers>>
    /\ UNCHANGED <<uploadVars, extractVars, handleVars>>

\* save_page_ocr, json.dump: a further part of the text reaches the file.
WriterFlush ==
    /\ writer.pc = "dump"
    /\ \E k \in (Len(fs.files[WriterPath]) + 1)..(Len(WriterText) - 1) :
         fs' = WriteFile(fs, WriterPath, SubSeq(WriterText, 1, k)).fs
    /\ UNCHANGED <<allocated, imageSaved, regionsSaved, cleaned, writer, readers>>
    /\ UNCHANGED <<uploadVars, extractVars, handleVars>>

\* save_page_ocr, leaving the with block: the file holds the whole text, as
\* after the call as a whole.
WriterClose ==
    /\ writer.pc = "dump"
    /\ fs' = save_page_ocr(fs, WriterDoc, writer.page, WriterPages.text_regions[writer.page]).fs
    /\ writer' = IF writer.page = WriterLast THEN [pc |-> "done", page |-> 0]
                 ELSE [pc |-> "image", page |-> writer.page + 1]
    /\ UNCHANGED <<allocated, imageSaved, regionsSaved, cleaned, readers>>
    /\ UNCHANGED <<uploadVars, extractVars, handleVars>>

\* get_page_ocr, path.exists(): not-found at once when the file is missing.
ReaderExists(r, n) ==
    /\ readers[r].pc \in {"idle", "done"}
    /\ readers' = [readers EXCEPT ![r] =
                     IF FileExists(fs, OcrPath(WriterDoc, n))
                     THEN [pc |-> "load", page |-> n, raised |-> FALSE, ret |-> None]
                     ELSE [pc |-> "done", page |-> n, raised |-> FALSE, ret |-> None]]
    /\ UNCHANGED <<storeVars, writer, uploadVars, extractVars, handleVars>>

\* get_page_ocr, open() and json.load(): what the file holds at that moment.
ReaderLoad(r) ==
    /\ readers[r].pc = "load"
    /\ LET got == get_page_ocr(fs, WriterDoc, readers[r].page)
       IN  readers' = [readers EXCEPT ![r] =
                         [pc |-> "done", page |-> readers[r].page,
                          raised |-> got.raised, ret |-> got.ret]]
    /\ UNCHANGED <<storeVars, writer, uploadVars, extractVars, handleVars>>

NextRace ==
    \/ WriterBegin
    \/ WriterSaveImage
    \/ WriterOpen
    \/ WriterFlush
    \/ WriterClose
    \/ \E r \in Readers, n \in 1..WriterLast : ReaderExists(r, n)
    \/ \E r \in Readers : ReaderLoad(r)

SpecRace == Init /\ [][NextRace]_vars

\* C11: with one writer running the extraction of document d and any number
\* of concurrent readers, every get_page_regions(d, n) returns not-found or
\* exactly the regions R the writer saves for page n; it never raises and
\* never returns a partial or empty-file value.
C11_ReadNotFoundOrWhole ==
    \A r \in Readers :
        readers[r].pc = "done" =>
            /\ ~readers[r].raised
            /\ \/ readers[r].ret = None
               \/ readers[r].ret = Some(WriterPages.text_regions[readers[r].page])

\* ------------------------------------------------- open document handles
\* pdf_to_page_images and extract_text_regions step by step: fitz.open, one
\* step per page of the for loop, doc.close() and return.  fitz.open,
\* page.get_pixmap and page.get_text can raise; an exception leaves the
\* function at once, there being no try/finally and no with block around the
\* loop.  A handle that its call left open is released when the interpreter
\* collects the document object, at some later moment.
DocFns == {"pdf_to_page_images", "extract_text_regions"}
HandleIds == {"h1", "h2"}

\* What a whole call of fn returns for the document.
CallResult(fn, doc) ==
    IF fn = "pdf_to_page_images" THEN pdf_to_page_images(doc, DPI)
    ELSE extract_text_regions(doc, DPI)

CallOver == call.pc \in {"idle", "returned", "raised"}

\* doc = fitz.open(pdf_path)
DocOpen(fn, doc, h) ==
    /\ CallOver
    /\ h \notin handles
    /\ handles' = handles \cup {h}
    /\ call' = [fn |-> fn, pc |-> "loop", doc |-> doc, h |-> h, page |-> 1, out |-> <<>>]
    /\ UNCHANGED <<storeVars, uploadVars, extractVars, raceVars>>

\* fitz.open raises: no handle was opened.
DocOpenRaises(fn, doc) ==
    /\ CallOver
    /\ call' = [fn |-> fn, pc |-> "raised", doc |-> doc, h |-> "none", page |-> 0, out |-> <<>>]
    /\ UNCHANGED <<storeVars, uploadVars, extractVars, raceVars, handles>>

\* One turn of for page in doc: the page's image or regions are appended.
DocPage ==
    /\ call.pc = "loop"
    /\ call.page <= Len(call.doc)
    /\ call' = [call EXCEPT !.page = @ + 1,
                            !.out = Append(@, CallResult(call.fn, call.doc)[call.page])]
    /\ UNCHANGED <<storeVars, uploadVars, extractVars, raceVars, handles>>

\* page.get_pixmap or page.get_text raises: the call is left without
\* reaching doc.close().
DocPageRaises ==
    /\ call.pc = "loop"
    /\ call.page <= Len(call.doc)
    /\ call' = [call EXCEPT !.pc = "raised", !.out = <<>>]
    /\ UNCHANGED <<storeVars, uploadVars, extractVars, raceVars, handles>>

\* doc.close() and return after the last page.
DocClose ==
    /\ call.pc = "loop"
    /\ call.page > Len(call.doc)
    /\ handles' = handles \ {call.h}
    /\ call' = [call EXCEPT !.pc = "returned"]
    /\ UNCHANGED <<storeVars, uploadVars, extractVars, raceVars>>

\* The interpreter collects a document object no running call refers to.
DocCollected(h) ==
    /\ h \in handles
    /\ CallOver
    /\ handles' = handles \ {h}
    /\ UNCHANGED <<storeVars, uploadVars, extractVars, raceVars, call>>

NextHandles ==
    \/ \E fn \in DocFns, doc \in PdfInputs, h \in HandleIds : DocOpen(fn, doc, h)
    \/ \E fn \in DocFns, doc \in PdfInputs : DocOpenRaises(fn, doc)
    \/ DocPage
    \/ DocPageRaises
    \/ DocClose
    \/ \E h \in HandleIds : DocCollected(h)

SpecHandles == Init /\ [][NextHandles]_vars

\* A call that returned went through every page and returns what the
\* function as a whole returns.
ReturnedWhole ==
    call.pc = "returned" => call.out = CallResult(call.fn, call.doc)

\* C12: every call of the rasterizer and of the extractor that opened the
\* PDF has released the open document handle when it returns, on every exit
\* path, also when rendering or reading the text of some page raised after
\* the document was opened.
C12_HandleReleased ==
    call.pc \in {"returned", "raised"} => call.h \notin handles
====
